---- MODULE Spec2Model ----
(***************************************************************************)
(* A model of package dnsleapsecs: the CRC-8 checksum engine (crc8), the   *)
(* field codec (Decode) and the candidate resolver (LookupHost).           *)
(*                                                                         *)
(* A Go uint32 is modelled as a pair <<hi, lo>> of 16-bit limbs, value     *)
(* hi * 2^16 + lo, because TLC's integers are 32-bit signed.  Every        *)
(* operation on such a pair truncates to 32 bits as the Go operation does. *)
(* An address text is a sequence of one-character strings.                 *)
(***************************************************************************)
EXTENDS Integers, Sequences, FiniteSets, TLC

VARIABLES
    pc,           \* position of the call in progress
    resolver,     \* what the injected Resolver answers: [addrs, err]
    ips,          \* LookupHost: the candidates the resolver returned
    idx,          \* LookupHost: index of the next candidate of the range loop
    ip,           \* LookupHost: loop variable ip
    dr,           \* LookupHost: local dr
    err,          \* LookupHost: local err
    ret,          \* LookupHost: the returned (address text, Result, error)
    lookupCalls,  \* number of calls of r.LookupHost
    decodeCalls,  \* indices of the candidates handed to Decode, in call order
    fields,       \* codec harness: the tuple handed to the encoder
    text,         \* codec harness: the address text handed to Decode
    out,          \* codec harness: what Decode returned, [r, err]
    crcIn,        \* checksum harness: the word handed to crc8
    crcOut,       \* checksum harness: what crc8 returned
    ckByte,       \* checksum sweep: the next checksum byte to try
    accepted,     \* checksum sweep: bytes whose word passed the checksum gate
    rejected      \* checksum sweep: bytes whose word got InvalidChecksum

vars == <<pc, resolver, ips, idx, ip, dr, err, ret, lookupCalls, decodeCalls,
          fields, text, out, crcIn, crcOut, ckByte, accepted, rejected>>

---------------------------------------------------------------------------
(* 32-bit unsigned arithmetic on limb pairs *)

H == 2^16

RECURSIVE BitAndRec(_, _), BitOrRec(_, _), BitXorRec(_, _)
BitAndRec(a, b) ==
    IF a = 0 \/ b = 0 THEN 0
    ELSE ((a % 2) * (b % 2)) + 2 * BitAndRec(a \div 2, b \div 2)
BitOrRec(a, b) ==
    IF a = 0 THEN b ELSE IF b = 0 THEN a
    ELSE (IF (a % 2) + (b % 2) > 0 THEN 1 ELSE 0) + 2 * BitOrRec(a \div 2, b \div 2)
BitXorRec(a, b) ==
    IF a = 0 THEN b ELSE IF b = 0 THEN a
    ELSE (((a % 2) + (b % 2)) % 2) + 2 * BitXorRec(a \div 2, b \div 2)

\* The three operators on 4-bit digits, tabulated once.
And4 == [a \in 0..15 |-> [b \in 0..15 |-> BitAndRec(a, b)]]
Or4  == [a \in 0..15 |-> [b \in 0..15 |-> BitOrRec(a, b)]]
Xor4 == [a \in 0..15 |-> [b \in 0..15 |-> BitXorRec(a, b)]]

RECURSIVE BitAnd(_, _), BitOr(_, _), BitXor(_, _)
BitAnd(a, b) ==
    IF a = 0 \/ b = 0 THEN 0
    ELSE And4[a % 16][b % 16] + 16 * BitAnd(a \div 16, b \div 16)
BitOr(a, b) ==
    IF a = 0 THEN b ELSE IF b = 0 THEN a
    ELSE Or4[a % 16][b % 16] + 16 * BitOr(a \div 16, b \div 16)
BitXor(a, b) ==
    IF a = 0 THEN b ELSE IF b = 0 THEN a
    ELSE Xor4[a % 16][b % 16] + 16 * BitXor(a \div 16, b \div 16)

U32(n) == <<n \div H, n % H>>            \* a literal below 2^31
And32(x, y) == <<BitAnd(x[1], y[1]), BitAnd(x[2], y[2])>>
Or32(x, y)  == <<BitOr(x[1], y[1]), BitOr(x[2], y[2])>>
Xor32(x, y) == <<BitXor(x[1], y[1]), BitXor(x[2], y[2])>>

\* x << k and x >> k of a uint32: bits shifted out of the register are lost.
ShlLimb(x, k) == <<((x[1] * 2^k) + (x[2] \div 2^(16 - k))) % H, (x[2] * 2^k) % H>>
Shl(x, k) ==
    IF k >= 32 THEN <<0, 0>>
    ELSE IF k >= 16 THEN ShlLimb(<<x[2], 0>>, k - 16)
    ELSE ShlLimb(x, k)
ShrLimb(x, k) == <<x[1] \div 2^k, (((x[1] % 2^k) * 2^(16 - k)) + (x[2] \div 2^k)) % H>>
Shr(x, k) ==
    IF k >= 32 THEN <<0, 0>>
    ELSE IF k >= 16 THEN ShrLimb(<<0, x[1]>>, k - 16)
    ELSE ShrLimb(x, k)
\* x + n for a small n, wrapping at 2^32
Add32(x, n) == <<(x[1] + ((x[2] + n) \div H)) % H, (x[2] + n) % H>>
\* int(x), for a value below 2^31
ToInt(x) == (x[1] * H) + x[2]

---------------------------------------------------------------------------
(* crc8: MSB-first CRC-8 over the low 28 bits of u *)

\* Variants of the constants below, as a slip in the code would have them.
bitsWide == 28 + 4
seedZero == <<0, 0>>
polyEven == 303 - 1

bits == 28
seed == <<21673, 44024>>          \* 0x54a9abf8
poly == 303                       \* 0x12f

\* One pass of the loop body: the conditional xor, then crc <<= 1.
crc8Step(crc) ==
    LET x == IF And32(crc, Shl(U32(1), 31)) # <<0, 0>>
             THEN Xor32(crc, Shl(U32(poly), 23))
             ELSE crc
    IN Shl(x, 1)

\* for i := 0; i < n; i++ { ... }, the register bound to its value on each pass
RECURSIVE crc8Loop(_, _, _)
crc8Loop(crc, i, n) ==
    IF i >= n THEN crc
    ELSE CHOOSE r \in {crc8Loop(c, i + 1, n) : c \in {crc8Step(crc)}} : TRUE

crc8Bits(u, n) == Shr(crc8Loop(Xor32(seed, Shl(u, 32 - n)), 0, n), 24)

crc8(u) == crc8Bits(u, bits)

---------------------------------------------------------------------------
(* fmt.Sscanf(ip, "%d.%d.%d.%d", &o1, &o2, &o3, &o4) with uint32 operands *)

DigitSeq == <<"0", "1", "2", "3", "4", "5", "6", "7", "8", "9">>
DigitChars == {DigitSeq[k] : k \in 1..10}
DigitVal(ch) == (CHOOSE k \in 1..10 : DigitSeq[k] = ch) - 1

\* %d skips leading blanks of the input
RECURSIVE SkipSpace(_, _)
SkipSpace(s, p) ==
    IF p <= Len(s) /\ s[p] = " " THEN SkipSpace(s, p + 1) ELSE p

\* The token of decimal digits at p and its value; over: it does not fit 32 bits.
RECURSIVE ScanDigits(_, _, _, _, _)
ScanDigits(s, p, acc, over, any) ==
    IF p > Len(s) \/ s[p] \notin DigitChars
    THEN [pos |-> p, val |-> acc, over |-> over, any |-> any]
    ELSE LET lo == (acc[2] * 10) + DigitVal(s[p])
             hi == (acc[1] * 10) + (lo \div H)
         IN CHOOSE r \in {ScanDigits(s, p + 1, a, over \/ hi >= H, TRUE) :
                            a \in {<<hi % H, lo % H>>}} : TRUE

ScanUint(s, p) ==
    LET q == SkipSpace(s, p)
        t == ScanDigits(s, q, <<0, 0>>, FALSE, FALSE)
    IN IF q > Len(s) THEN [ok |-> FALSE, err |-> "unexpected EOF", val |-> <<0, 0>>, pos |-> q]
       ELSE IF ~t.any THEN [ok |-> FALSE, err |-> "expected integer", val |-> <<0, 0>>, pos |-> q]
       ELSE IF t.over THEN [ok |-> FALSE, err |-> "integer overflow", val |-> <<0, 0>>, pos |-> t.pos]
       ELSE [ok |-> TRUE, err |-> "nil", val |-> t.val, pos |-> t.pos]

\* os: the operands scanned so far.  A "." of the format must match the input.
RECURSIVE DoScanf(_, _, _)
DoScanf(s, p, os) ==
    IF Len(os) = 4 THEN [n |-> 4, err |-> "nil", o |-> os]
    ELSE IF Len(os) > 0 /\ p > Len(s)
         THEN [n |-> Len(os), err |-> "too many operands", o |-> os]
    ELSE IF Len(os) > 0 /\ s[p] # "."
         THEN [n |-> Len(os), err |-> "input does not match format", o |-> os]
    ELSE LET r == ScanUint(s, IF Len(os) > 0 THEN p + 1 ELSE p)
         IN IF ~r.ok THEN [n |-> Len(os), err |-> r.err, o |-> os]
            ELSE DoScanf(s, r.pos, Append(os, r.val))

Sscanf(s) == DoScanf(s, 1, <<>>)

---------------------------------------------------------------------------
(* Result, Error and Decode *)

ZeroResult == [Year |-> 0, Month |-> 0, DTAI |-> 0, Delta |-> 0]
\* A nil error; an *Error carries a non-zero Code and its wrapped Err ("nil": none).
NilError == [Code |-> 0, Err |-> "nil"]
Error(code, cause) == [Code |-> code, Err |-> cause]

monthBaseOff == 10 + 1
monthBase == 10

\* deltaOf with the two signs exchanged
deltaOfSwapped(d) == CASE d = 0 -> 0 [] d = 1 -> 1 [] d = 2 -> 0 - 1 [] OTHER -> 0

\* switch d { case 0: 0; case 1: -1; case 2: +1 }
deltaOf(d) == CASE d = 0 -> 0 [] d = 1 -> 0 - 1 [] d = 2 -> 1 [] OTHER -> 0

\* u := o1<<24 | o2<<16 | o3<<8 | o4
Assemble(o) == Or32(Or32(Or32(Shl(o[1], 24), Shl(o[2], 16)), Shl(o[3], 8)), o[4])

\* return Result{}, &Error{Code: code, Err: cause}
Fail(code, cause) == [r |-> ZeroResult, err |-> Error(code, cause)]

\* Check & remove CRC8 is done; split what is left into fields.
Unpack(u) ==
    LET u1 == Shr(u, 8)
        o  == And32(u1, U32(127))
        u2 == Shr(u1, 7)
        d  == And32(u2, U32(3))
        u3 == Shr(u2, 2)
        mn == Add32(And32(u3, U32(2047)), monthBase)
    IN [o |-> o, d |-> d, mn |-> mn]

\* Convert to return values
Convert(f) ==
    [Year  |-> 1971 + (ToInt(f.mn) \div 12),
     Month |-> 1 + (ToInt(f.mn) % 12),
     DTAI  |-> ToInt(f.o),
     Delta |-> deltaOf(ToInt(f.d))]

\* DecodeWord with the checksum gate ahead of the class-E gate
DecodeWordCrcFirst(u) ==
    IF crc8(u) # U32(128) THEN Fail(0 - 2, "nil")
    ELSE IF Shr(u, 28) # U32(15) THEN Fail(0 - 1, "nil")
    ELSE IF Unpack(u).d = U32(3) THEN Fail(0 - 3, "nil")
    ELSE [r |-> Convert(Unpack(u)), err |-> NilError]

\* DecodeWord returning the converted fields beside InvalidAction
DecodeWordLeak(u) ==
    IF Shr(u, 28) # U32(15) THEN Fail(0 - 1, "nil")
    ELSE IF crc8(u) # U32(128) THEN Fail(0 - 2, "nil")
    ELSE IF Unpack(u).d = U32(3)
         THEN [r |-> Convert(Unpack(u)), err |-> Error(0 - 3, "nil")]
    ELSE [r |-> Convert(Unpack(u)), err |-> NilError]

\* Decode after the word is assembled: the three gates, then the fields.
DecodeWord(u) ==
    IF Shr(u, 28) # U32(15) THEN Fail(0 - 1, "nil")
    ELSE IF crc8(u) # U32(128) THEN Fail(0 - 2, "nil")
    ELSE IF Unpack(u).d = U32(3) THEN Fail(0 - 3, "nil")
    ELSE [r |-> Convert(Unpack(u)), err |-> NilError]

Decode(s) ==
    LET sc == Sscanf(s)
    IN IF sc.n # 4 THEN Fail(0 - 1, sc.err)
       ELSE DecodeWord(Assemble(sc.o))

---------------------------------------------------------------------------
(* TestVectors, and the wire format of the package comment *)

TestVectors == <<
    [IP |-> <<"2", "4", "0", ".", "3", ".", "9", ".", "7", "7">>, Result |-> [Year |-> 1971, Month |-> 12, DTAI |-> 9, Delta |-> 1], Err |-> NilError],
    [IP |-> <<"2", "4", "0", ".", "1", "5", ".", "1", "0", ".", "1", "0", "8">>, Result |-> [Year |-> 1972, Month |-> 6, DTAI |-> 10, Delta |-> 1], Err |-> NilError],
    [IP |-> <<"2", "4", "2", ".", "1", "8", ".", "2", "8", ".", "1", "6", "0">>, Result |-> [Year |-> 1993, Month |-> 12, DTAI |-> 28, Delta |-> 0], Err |-> NilError],
    [IP |-> <<"2", "5", "5", ".", "7", "6", ".", "2", "0", "0", ".", "2", "3", "7">>, Result |-> [Year |-> 2135, Month |-> 1, DTAI |-> 72, Delta |-> 0 - 1], Err |-> NilError],
    [IP |-> <<"1", "2", "7", ".", "2", "4", "0", ".", "1", "3", "3", ".", "7", "6">>, Result |-> ZeroResult, Err |-> Error(0 - 1, "nil")],
    [IP |-> <<"2", "5", "5", ".", "2", "0", "9", ".", "7", "6", ".", "4", "0">>, Result |-> ZeroResult, Err |-> Error(0 - 2, "nil")],
    [IP |-> <<"2", "4", "1", ".", "1", "7", "9", ".", "1", "5", "2", ".", "7", "3">>, Result |-> ZeroResult, Err |-> Error(0 - 3, "nil")] >>

\* The decimal text of a natural number, and of four octets joined by dots.
RECURSIVE FormatNat(_)
FormatNat(n) ==
    IF n < 10 THEN <<DigitSeq[n + 1]>>
    ELSE FormatNat(n \div 10) \o <<DigitSeq[(n % 10) + 1]>>
FormatOctets(o) ==
    FormatNat(o[1]) \o <<".">> \o FormatNat(o[2]) \o <<".">> \o
    FormatNat(o[3]) \o <<".">> \o FormatNat(o[4])
\* The dotted quad of a word, most significant octet first.
FormatIP(u) == FormatOctets(<<u[1] \div 256, u[1] % 256, u[2] \div 256, u[2] % 256>>)

\* |1 1 1 1| month (11) | d (2) | dTAI (7) | CRC-8 (8) |
Word(month, d, dtai, crc) ==
    <<(15 * 4096) + (month * 2) + (d \div 2), ((d % 2) * 32768) + (dtai * 256) + crc>>
\* The word of a payload whose last octet makes the checksum come out right.
Pack(month, d, dtai) ==
    Word(month, d, dtai, CHOOSE c \in 0..255 : crc8(Word(month, d, dtai, c)) = U32(128))
\* 'month' = (year - 1971) * 12 + month - 11, in its 11 bits; 'd' from the delta.
MonthField(year, month) == ((((year - 1971) * 12) + month) - 11) % 2048
ActionOf(delta) == CASE delta = 0 -> 0 [] delta = 0 - 1 -> 1 [] delta = 1 -> 2
Encode(f) == Pack(MonthField(f.Year, f.Month), ActionOf(f.Delta), f.DTAI)

---------------------------------------------------------------------------
(* Inputs *)

MaxCandidates == 3

\* Address texts a resolver may answer with.
AddrPool == {
    TestVectors[1].IP, TestVectors[3].IP, TestVectors[5].IP, TestVectors[6].IP,
    TestVectors[7].IP,
    <<"2", "4", "0", ".", "3", ".", "9">>,         \* "240.3.9": no fourth number
    <<"2", "4", "4", ".", "2", "3", ".", "3", "5", ".", "2", "5", "5">> }           \* "244.23.35.255", the example of the package comment
RECURSIVE SeqsUpTo(_, _)
SeqsUpTo(S, n) ==
    IF n = 0 THEN {<<>>}
    ELSE LET shorter == SeqsUpTo(S, n - 1)
         IN shorter \cup {Append(q, x) : q \in {r \in shorter : Len(r) = n - 1}, x \in S}
\* testResolver: an error, one address or a list; err "nil" is no error.
ResolverAnswers ==
    {[addrs |-> l, err |-> "nil"] : l \in SeqsUpTo(AddrPool, MaxCandidates)}
    \cup {[addrs |-> l, err |-> "some lookup error"] : l \in SeqsUpTo(AddrPool, 1)}

\* Texts handed to Decode as they are: the vectors, malformed ones, and numbers
\* that do not fit an octet or 32 bits.
RawTexts ==
    {TestVectors[k].IP : k \in 1..7}
    \cup { <<"2", "4", "4", ".", "2", "3", ".", "3", "5", ".", "2", "5", "5">>, <<"2", "4", "0", ".", "3", ".", "9">>, <<>>,
           <<"2", "4", "0", ".", "3", ".", "9", ".">>,      \* "240.3.9."
           <<"2", "4", "0", ".", "3", ".", "9", ".", "x">>,      \* "240.3.9.x"
           <<"2", "4", "0", ".", " ", "3", ".", "9", ".", "7", "7">>,      \* "240. 3.9.77"
           <<"2", "4", "0", " ", ".", "3", ".", "9", ".", "7", "7">>,      \* "240 .3.9.77"
           <<"2", "4", "0", ".", "3", ".", "9", ".", "7", "7", " ", "j", "u", "n", "k">>,      \* "240.3.9.77 junk"
           <<"4", "2", "9", "4", "9", "6", "7", "2", "9", "6", ".", "3", ".", "9", ".", "7", "7">>,      \* "4294967296.3.9.77"
           <<"0", ".", "0", ".", "0", ".", "4", "2", "9", "4", "9", "6", "7", "2", "9", "5">>,      \* "0.0.0.4294967295"
           <<"4", "0", "2", "6", "5", "3", "1", "8", "4", "0", ".", "3", ".", "9", ".", "7", "7">> }     \* "4026531840.3.9.77"
\* Numbers scanned as they are: around the accepted words 240.3.9.77,
\* 241.179.152.73 and 255.76.200.237, with other tags, other last octets and
\* numbers above 255.
RawOctets ==
    {<<a, b[1], b[2], c>> :
        a \in {240, 241, 255, 113, 127, 496, 15},
        b \in {<<3, 9>>, <<3, 8>>, <<179, 152>>, <<76, 200>>},
        c \in {77, 73, 237, 78, 333}}
\* Tuples handed to the encoder.
YearSpan == 0
Years == (1971..(1971 + YearSpan)) \cup {2140}
Months == 1..12
Dtais == {0, 127}
Deltas == {0 - 1, 0, 1}
Tuples == [Year : Years, Month : Months, DTAI : Dtais, Delta : Deltas]
NoFields == [Year |-> 0, Month |-> 0, DTAI |-> 0, Delta |-> 0]

---------------------------------------------------------------------------
(* LookupHost *)

NoReturn == [addr |-> <<>>, r |-> ZeroResult, err |-> NilError]

codecIdle ==
    /\ fields = NoFields /\ text = <<>> /\ out = [r |-> ZeroResult, err |-> NilError]
checksumIdle ==
    /\ crcIn = <<0, 0>> /\ crcOut = <<0, 0>>
    /\ ckByte = 0 /\ accepted = {} /\ rejected = {}
lookupIdle ==
    /\ resolver = [addrs |-> <<>>, err |-> "nil"]
    /\ ips = <<>> /\ idx = 0 /\ ip = <<>> /\ dr = ZeroResult /\ err = NilError
    /\ ret = NoReturn /\ lookupCalls = 0 /\ decodeCalls = <<>>

codecVars == <<fields, text, out>>
checksumVars == <<crcIn, crcOut, ckByte, accepted, rejected>>
lookupVars == <<resolver, ips, idx, ip, dr, err, ret, lookupCalls, decodeCalls>>

Init ==
    /\ pc = "lookup"
    /\ resolver \in ResolverAnswers
    /\ ips = <<>> /\ idx = 0 /\ ip = <<>> /\ dr = ZeroResult /\ err = NilError
    /\ ret = NoReturn /\ lookupCalls = 0 /\ decodeCalls = <<>>
    /\ codecIdle /\ checksumIdle

\* EarlyReturn without the check of an empty list
EarlyReturnNoEmptyCheck(ans) ==
    IF ans.err # "nil"
    THEN [returns |-> TRUE, ret |-> [addr |-> <<>>, r |-> ZeroResult, err |-> Error(0 - 10, ans.err)]]
    ELSE [returns |-> FALSE, ret |-> NoReturn]

\* The two early returns after ips, err := r.LookupHost(ctx, host).
EarlyReturn(ans) ==
    IF ans.err # "nil"
    THEN [returns |-> TRUE, ret |-> [addr |-> <<>>, r |-> ZeroResult, err |-> Error(0 - 10, ans.err)]]
    ELSE IF Len(ans.addrs) = 0
    THEN [returns |-> TRUE, ret |-> [addr |-> <<>>, r |-> ZeroResult, err |-> Error(0 - 11, "nil")]]
    ELSE [returns |-> FALSE, ret |-> NoReturn]

\* Break never taken, and Break taken on an error
BreakNever(e) == FALSE
BreakOnError(e) == e # NilError

\* if err == nil { break }
Break(e) == e = NilError

\* The call of the resolver and the checks of its answer.
LookupCall ==
    /\ pc = "lookup"
    /\ lookupCalls' = lookupCalls + 1
    /\ ips' = resolver.addrs
    /\ ret' = EarlyReturn(resolver).ret
    /\ pc' = IF EarlyReturn(resolver).returns THEN "done" ELSE "loop"
    /\ idx' = 1
    /\ UNCHANGED <<resolver, ip, dr, err, decodeCalls, codecVars, checksumVars>>

\* One pass of for _, ip = range ips: the next candidate is decoded, and the
\* function returns ip, dr, err on a break or when no candidate is left.
LoopPass ==
    /\ pc = "loop"
    /\ IF idx > Len(ips)
       THEN /\ ret' = [addr |-> ip, r |-> dr, err |-> err]
            /\ pc' = "done"
            /\ UNCHANGED <<ip, dr, err, idx, decodeCalls>>
       ELSE LET d == Decode(ips[idx])
            IN /\ ip' = ips[idx]
               /\ dr' = d.r
               /\ err' = d.err
               /\ decodeCalls' = Append(decodeCalls, idx)
               /\ IF Break(d.err)
                  THEN /\ ret' = [addr |-> ips[idx], r |-> d.r, err |-> d.err]
                       /\ pc' = "done"
                       /\ UNCHANGED idx
                  ELSE /\ idx' = idx + 1
                       /\ UNCHANGED <<ret, pc>>
    /\ UNCHANGED <<resolver, ips, lookupCalls, codecVars, checksumVars>>

Next == LookupCall \/ LoopPass

Spec == Init /\ [][Next]_vars

---------------------------------------------------------------------------
(* Decode called on its own: on a text as it is, or on an encoded tuple *)

InitDecode ==
    /\ \/ /\ pc = "encode" /\ fields \in Tuples /\ text = <<>>
       \/ /\ pc = "decode" /\ fields = NoFields
          /\ text \in RawTexts \cup {FormatOctets(o) : o \in RawOctets}
    /\ out = [r |-> ZeroResult, err |-> NilError]
    /\ lookupIdle /\ checksumIdle

EncodeCall ==
    /\ pc = "encode"
    /\ text' = FormatIP(Encode(fields))
    /\ pc' = "decode"
    /\ UNCHANGED <<fields, out, lookupVars, checksumVars>>

DecodeCall ==
    /\ pc = "decode"
    /\ out' = Decode(text)
    /\ pc' = "decoded"
    /\ UNCHANGED <<fields, text, lookupVars, checksumVars>>

NextDecode == EncodeCall \/ DecodeCall

SpecDecode == InitDecode /\ [][NextDecode]_vars

\* Decode on its own and within LookupHost
SpecBoth == (Init \/ InitDecode) /\ [][Next \/ NextDecode]_vars

---------------------------------------------------------------------------
(* crc8 called on its own, as TestCRC8 does *)

\* Words handed to crc8: every class tag over a few payloads.
CrcPayloads == {<<0, 0>>, <<1047, 9215>>, <<3, 2381>>, <<4095, 65535>>,
                <<2048, 1>>, <<1, 32768>>, <<3916, 51437>>, <<2730, 43690>>}
CrcInputs == {<<(tag * 4096) + p[1], p[2]>> : tag \in 0..15, p \in CrcPayloads}

InitCrc ==
    /\ pc = "crc"
    /\ crcIn \in CrcInputs
    /\ crcOut = <<0, 0>>
    /\ ckByte = 0 /\ accepted = {} /\ rejected = {}
    /\ lookupIdle /\ codecIdle

Crc8Call ==
    /\ pc = "crc"
    /\ crcOut' = crc8(crcIn)
    /\ pc' = "crcdone"
    /\ UNCHANGED <<crcIn, ckByte, accepted, rejected, lookupVars, codecVars>>

NextCrc == Crc8Call

SpecCrc == InitCrc /\ [][NextCrc]_vars

---------------------------------------------------------------------------
(* The checksum octet swept over 0..255 for one payload *)

SweepMonths == {0, 523, 2047}
SweepDtais == {35, 127}
SweepPayloads == [Month : SweepMonths, Action : 0..3, DTAI : SweepDtais]

InitSweep ==
    /\ pc = "sweep"
    /\ \E p \in SweepPayloads :
          fields = [Year |-> 0, Month |-> p.Month, DTAI |-> p.DTAI, Delta |-> p.Action]
    /\ text = <<>> /\ out = [r |-> ZeroResult, err |-> NilError]
    /\ crcIn = <<0, 0>> /\ crcOut = <<0, 0>>
    /\ ckByte = 0 /\ accepted = {} /\ rejected = {}
    /\ lookupIdle

\* crc8 and Decode on the word of the payload with the octet ckByte.
SweepStep ==
    /\ pc = "sweep"
    /\ LET w == Word(fields.Month, fields.Delta, fields.DTAI, ckByte)
           d == Decode(FormatIP(w))
           c == crc8(w)
       IN /\ crcIn' = w
          /\ crcOut' = c
          /\ text' = FormatIP(w)
          /\ out' = d
          /\ accepted' = IF c = U32(128) THEN accepted \cup {ckByte} ELSE accepted
          /\ rejected' = IF d.err.Code = 0 - 2 THEN rejected \cup {ckByte} ELSE rejected
    /\ ckByte' = ckByte + 1
    /\ pc' = IF ckByte = 255 THEN "swept" ELSE "sweep"
    /\ UNCHANGED <<fields, lookupVars>>

NextSweep == SweepStep

SpecSweep == InitSweep /\ [][NextSweep]_vars

---------------------------------------------------------------------------
(* Properties *)

\* The fields of a word, read off its bits by arithmetic.
TagBits(u) == u[1] \div 4096
MonthBits(u) == (u[1] \div 2) % 2048
ActionBits(u) == (2 * (u[1] % 2)) + (u[2] \div 32768)
DtaiBits(u) == (u[2] \div 256) % 128
\* The word Decode assembles from a text with four numbers.
WordOf(t) == Assemble(Sscanf(t).o)
Succeeds(t) == Decode(t).err = NilError
\* The index of the first candidate Decode accepts, 0 if there is none.
FirstOk(l) ==
    IF \E k \in 1..Len(l) : Succeeds(l[k])
    THEN CHOOSE k \in 1..Len(l) : Succeeds(l[k]) /\ \A j \in 1..(k - 1) : ~Succeeds(l[j])
    ELSE 0

\* C1: once four numbers are scanned, Decode's error is decided by the gates in
\* order: InvalidAddress without a cause if the top four bits of the word are not
\* 0xF, else InvalidChecksum if crc8 of the word is not 0x80, else InvalidAction
\* if the action bits are 3, else nil.
C1_GatePriority ==
    (pc = "decoded" /\ Sscanf(text).n = 4) =>
        LET u == WordOf(text)
        IN out.err = IF TagBits(u) # 15 THEN Error(0 - 1, "nil")
                     ELSE IF crc8(u) # U32(128) THEN Error(0 - 2, "nil")
                     ELSE IF ActionBits(u) = 3 THEN Error(0 - 3, "nil")
                     ELSE NilError
\* A number above 255 was scanned, the tag and the checksum are both wrong, and
\* the tag's error is the one returned.
C1_Witness ==
    /\ pc = "decoded" /\ Sscanf(text).n = 4
    /\ \E k \in 1..4 : ToInt(Sscanf(text).o[k]) > 255
    /\ TagBits(WordOf(text)) # 15
    /\ crc8(WordOf(text)) # U32(128)
    /\ out.err = Error(0 - 1, "nil")

\* C2: a successful Decode returns DTAI = bits 14..8, Delta 0 / -1 / +1 for action
\* 0 / 1 / 2, and Year = 1971 + m div 12, Month = 1 + m mod 12 for
\* m = bits 27..17 plus 10; Month is in 1..12, DTAI in 0..127, Delta in -1..1.
C2_Fields ==
    (pc = "decoded" /\ out.err = NilError) =>
        LET u == WordOf(text)
            m == MonthBits(u) + 10
        IN /\ out.r.DTAI = DtaiBits(u)
           /\ out.r.Delta = (CASE ActionBits(u) = 0 -> 0
                               [] ActionBits(u) = 1 -> 0 - 1
                               [] ActionBits(u) = 2 -> 1
                               [] OTHER -> 2)
           /\ out.r.Year = 1971 + (m \div 12)
           /\ out.r.Month = 1 + (m % 12)
           /\ out.r.Month \in 1..12
           /\ out.r.DTAI \in 0..127
           /\ out.r.Delta \in {0 - 1, 0, 1}
\* Decode succeeded on a word whose month field crosses a year and whose action is 1.
C2_Witness ==
    /\ pc = "decoded" /\ out.err = NilError
    /\ ActionBits(WordOf(text)) = 1
    /\ MonthBits(WordOf(text)) > 12
    /\ out.r.Delta = 0 - 1
    /\ out.r.Month = 12

\* C3 as stated: every tuple with year in 1971..2140, month in 1..12, dtai in
\* 0..127 and delta in -1..1 comes back from encoding and decoding unchanged.
C3_RoundTripAnyMonth ==
    (pc = "decoded" /\ fields \in Tuples) => out = [r |-> fields, err |-> NilError]
\* C3, amended: the tuples from November 1971 on, those whose month field
\* (year - 1971) * 12 + month - 11 is not negative, come back unchanged.
C3_RoundTrip ==
    (pc = "decoded" /\ fields \in Tuples
        /\ (((fields.Year - 1971) * 12) + fields.Month) - 11 >= 0) =>
        out = [r |-> fields, err |-> NilError]
\* The earliest tuple the format holds, and the last month of 2140, came back.
C3_Witness ==
    /\ pc = "decoded"
    /\ \/ fields = [Year |-> 1971, Month |-> 11, DTAI |-> 127, Delta |-> 0 - 1]
       \/ fields = [Year |-> 2140, Month |-> 12, DTAI |-> 127, Delta |-> 1]
    /\ out.r = fields

\* C4: candidates are decoded in the resolver's order, none after one that
\* Decode accepts, and LookupHost returns the first accepted candidate's text
\* and Result with a nil error.
C4_FirstSuccessWins ==
    /\ \A j \in 1..Len(decodeCalls) : decodeCalls[j] = j
    /\ \A j \in 1..(Len(decodeCalls) - 1) : ~Succeeds(ips[j])
    /\ (pc = "done" /\ resolver.err = "nil" /\ FirstOk(resolver.addrs) > 0) =>
          LET f == FirstOk(resolver.addrs)
          IN /\ ret = [addr |-> resolver.addrs[f], r |-> Decode(resolver.addrs[f]).r,
                       err |-> NilError]
             /\ decodeCalls = [j \in 1..f |-> j]
\* The second of three candidates is the first accepted, the third would have
\* been accepted with another Result, and the second is returned.
C4_Witness ==
    /\ pc = "done" /\ Len(ips) = 3
    /\ FirstOk(ips) = 2
    /\ Succeeds(ips[3]) /\ ips[3] # ips[2]
    /\ ret.addr = ips[2] /\ ret.err = NilError
    /\ decodeCalls = <<1, 2>>

\* C5: when the list is not empty and no candidate decodes, LookupHost returns
\* the last candidate's text and error with a zero Result.
C5_LastErrorWins ==
    (pc = "done" /\ resolver.err = "nil" /\ Len(resolver.addrs) > 0
        /\ FirstOk(resolver.addrs) = 0) =>
        ret = [addr |-> resolver.addrs[Len(resolver.addrs)], r |-> ZeroResult,
               err |-> Decode(resolver.addrs[Len(resolver.addrs)]).err]
\* The three invalid vectors in the order of the test: InvalidAction is returned.
C5_Witness ==
    /\ pc = "done"
    /\ ips = <<TestVectors[5].IP, TestVectors[6].IP, TestVectors[7].IP>>
    /\ ret.addr = TestVectors[7].IP
    /\ ret.err = Error(0 - 3, "nil")

\* C6: the resolver is called once; a failed lookup returns LookupFailed wrapping
\* the cause, an empty answer returns EmptyResponse without a cause, both with an
\* empty text and a zero Result, and nothing is decoded.
C6_NoCandidates ==
    /\ lookupCalls = (IF pc = "lookup" THEN 0 ELSE 1)
    /\ (pc = "done" /\ resolver.err # "nil") =>
          /\ ret = [addr |-> <<>>, r |-> ZeroResult, err |-> Error(0 - 10, resolver.err)]
          /\ decodeCalls = <<>>
    /\ (pc = "done" /\ resolver.err = "nil" /\ resolver.addrs = <<>>) =>
          /\ ret = [addr |-> <<>>, r |-> ZeroResult, err |-> Error(0 - 11, "nil")]
          /\ decodeCalls = <<>>
\* LookupHost has returned on an empty answer.
C6_Witness ==
    /\ pc = "done" /\ resolver.err = "nil" /\ resolver.addrs = <<>>
    /\ lookupCalls = 1
    /\ ret.err.Code = 0 - 11

\* C7: what Decode returns, on its own and to LookupHost, and what LookupHost
\* returns is either an error with the zero Result or a nil error with a Result
\* whose Year is at least 1971.
Exclusive(r, e) ==
    /\ e # NilError => r = ZeroResult
    /\ e = NilError => (r # ZeroResult /\ r.Year >= 1971)
C7_ResultXorError ==
    /\ pc = "decoded" => Exclusive(out.r, out.err)
    /\ (pc \in {"loop", "done"} /\ Len(decodeCalls) > 0) => Exclusive(dr, err)
    /\ pc = "done" => Exclusive(ret.r, ret.err)
\* LookupHost returned InvalidAction, the error of the last of its candidates.
C7_Witness ==
    /\ pc = "done" /\ Len(decodeCalls) > 0
    /\ ret.err.Code = 0 - 3
    /\ ret.r = ZeroResult

\* C8: Decode returns the Result and the error TestVectors lists for each of its
\* seven addresses.
C8_TestVectors ==
    \A k \in 1..7 :
        (pc = "decoded" /\ text = TestVectors[k].IP) =>
            (out.r = TestVectors[k].Result /\ out.err = TestVectors[k].Err)
\* The fourth vector is decoded.
C8_Witness ==
    /\ pc = "decoded" /\ text = TestVectors[4].IP
    /\ out.r.Year = 2135

\* C9: crc8 returns a value in 0..255, the same as for the word with its top four
\* bits cleared, and 0x80 for 0x041723ff and 0xF41723FF.
C9_Low28Bits ==
    pc = "crcdone" =>
        /\ crcOut[1] = 0 /\ crcOut[2] \in 0..255
        /\ crcOut = crc8(<<crcIn[1] % 4096, crcIn[2]>>)
        /\ (crcIn[1] % 4096 = 1047 /\ crcIn[2] = 9215) => crcOut = U32(128)
\* crc8 returned 0x80 for 0xF41723FF, the word of 244.23.35.255.
C9_Witness ==
    /\ pc = "crcdone" /\ crcIn = <<62487, 9215>> /\ FormatIP(crcIn) = FormatOctets(<<244, 23, 35, 255>>)
    /\ crcOut = U32(128)

\* C10: over the last octets tried so far at most one gives crc8 = 0x80, Decode
\* answers InvalidChecksum for exactly the others and lets that one pass the
\* checksum gate, and once all 256 are tried exactly one has given 0x80.
C10_OneChecksum ==
    /\ Cardinality(accepted) <= 1
    /\ accepted \cup rejected = 0..(ckByte - 1)
    /\ accepted \cap rejected = {}
    /\ pc = "swept" => Cardinality(accepted) = 1
\* The sweep of the payload of 244.23.35.255 is over: 255 alone was accepted.
C10_Witness ==
    /\ pc = "swept"
    /\ fields.Month = 523 /\ fields.Delta = 2 /\ fields.DTAI = 35
    /\ accepted = {255}
    /\ Cardinality(rejected) = 255

====
